---- MODULE Spec2Model ----
(***************************************************************************)
(* A model of scripts/import_codes.py: the CSV-to-codes importer.          *)
(*                                                                         *)
(* The script is one sequential process.  Its state is the pending batch,  *)
(* the running count, the reader's position in the CSV file, the cursor    *)
(* and the connection; the environment is the CSV file and the codes       *)
(* table of the database.  The CSV file is read lazily (csv.DictReader):   *)
(* the model chooses each row when the reader reaches it and records it    *)
(* in csv, so that a second run of the script reads the same file.         *)
(*                                                                         *)
(* The database is PostgreSQL behind psycopg2.  Three facts about it are   *)
(* used: (1) psycopg2 opens a transaction at the first statement, and     *)
(* nothing a statement did is visible in the table before commit();        *)
(* rollback() discards it.  (2) execute_values sends up to page_size =     *)
(* 100 rows as ONE statement, so every batch of this script is one         *)
(* INSERT.  (3) INSERT ... ON CONFLICT DO UPDATE refuses to affect the     *)
(* same row twice in one statement: two proposed rows with the same        *)
(* conflict key raise a cardinality violation ("ON CONFLICT DO UPDATE      *)
(* command cannot affect row a second time") and the statement fails.      *)
(* rollback() itself is taken to succeed.                                  *)
(***************************************************************************)
EXTENDS Integers, Sequences, FiniteSets, TLC

\* ------------------------------------------------------------------ bounds

\* The longest CSV file read, in rows.
MaxRows == 201
\* How many rows of a file may be other than the default row of their line.
MaxSpecial == 2
\* How many flushes may fail for a reason outside the data.
MaxTransient == 1

\* ------------------------------------------------------ program constants

\* "if len(batch) >= 100".
BatchSize == 100

\* ----------------------------------------------------------------- inputs

\* Lines of the file where a row other than the default one may stand: the
\* first and the last row of the first batch, the first row of the second.
SpecialLines == {1, BatchSize, BatchSize + 1}

\* The lengths of the files that hold a row other than a default one: around
\* the batch boundaries.  A file of default rows only may have any length up
\* to MaxRows.
FileLengths ==
  {n \in 0..MaxRows : n % BatchSize \in {0, 1, BatchSize - 1}} \cup {MaxRows}

\* The lengths of the files the script is run on twice.
RerunLengths == {n \in FileLengths : n <= BatchSize + 1}

\* The kinds of row: "F" is the default row of its line (a billing code of
\* its own), "S1".."S4" are rows that share derived codes, "X" is a line on
\* which the loop body raises before the record is built (a column missing
\* from the header: KeyError; an undecodable byte: UnicodeDecodeError).
SpecialKinds == {"S1", "S2", "S3", "S4"}

\* A row with the given billing_code, place, description and unit_require;
\* the nine other columns hold a value of their own each.
Passthrough(r) ==
  [billing_code |-> r.billing_code, place |-> r.place,
   description |-> r.description, unit_require |-> r.unit_require,
   tariff_value |-> "12.50", extra_unit_value |-> "0", source_file |-> "ramq.csv",
   top_level |-> "top", level1_group |-> "g1", level2_group |-> "g2",
   leaf |-> "leaf", indicators |-> "ind", anchor_id |-> "anc"]

\* The row of line i of kind k.
RowOf(i, k) ==
  CASE k = "S1" -> Passthrough([billing_code |-> "A", place |-> "",
                                description |-> "first", unit_require |-> "FALSE"])
    [] k = "S2" -> Passthrough([billing_code |-> "A", place |-> "all",
                                description |-> "second", unit_require |-> "TRUE"])
    [] k = "S3" -> Passthrough([billing_code |-> "A", place |-> "O",
                                description |-> "", unit_require |-> "FALSE"])
    [] k = "S4" -> Passthrough([billing_code |-> "A-O", place |-> "",
                                description |-> "fourth", unit_require |-> "TRUE"])
    [] OTHER    -> Passthrough([billing_code |-> ToString(i),
                                place |-> IF i % 3 = 0 THEN "O"
                                          ELSE IF i % 3 = 1 THEN "" ELSE "all",
                                description |-> IF i % 2 = 0 THEN "" ELSE "desc",
                                unit_require |-> IF i % 2 = 0 THEN "TRUE" ELSE "FALSE"])

\* ------------------------------------------------------ the transformation

\* Python's "x or d" on strings: d when x is empty.
Or(x, d) == IF x = "" THEN d ELSE x

\* The keys of the custom_fields payload, in the order of the dict literal.
PayloadKeys ==
  <<"billing_code", "place", "tariff_value", "extra_unit_value", "source_file",
    "top_level", "level1_group", "level2_group", "leaf", "indicators", "anchor_id">>

\* place = row['place'] or 'all'
Place(row) == Or(row.place, "all")

\* The composite code with the suffix on every row.
DeriveCodeAlwaysSuffixed(row) == row.billing_code \o "-" \o Place(row)

\* The composite code.
DeriveCode(row) ==
  IF Place(row) = "all" THEN row.billing_code
  ELSE row.billing_code \o "-" \o Place(row)

\* The payload with tariff_value and extra_unit_value taken from each
\* other's column.
PayloadSwapped(row) ==
  [k \in {PayloadKeys[j] : j \in 1..Len(PayloadKeys)} |->
     CASE k = "billing_code"     -> row.billing_code
       [] k = "place"            -> Place(row)
       [] k = "tariff_value"     -> row.extra_unit_value
       [] k = "extra_unit_value" -> row.tariff_value
       [] OTHER                  -> row[k]]

\* The dict handed to json.dumps.
Payload(row) ==
  [k \in {PayloadKeys[j] : j \in 1..Len(PayloadKeys)} |->
     CASE k = "billing_code" -> row.billing_code
       [] k = "place"        -> Place(row)
       [] OTHER              -> row[k]]

\* json.dumps of a dict of strings with the default separators, keys in
\* insertion order.  The values of the model hold no character that
\* json.dumps escapes.
RECURSIVE JsonItems(_, _, _)
JsonItems(d, keys, j) ==
  IF j > Len(keys) THEN ""
  ELSE (IF j = 1 THEN "" ELSE ", ")
       \o "\"" \o keys[j] \o "\": \"" \o d[keys[j]] \o "\""
       \o JsonItems(d, keys, j + 1)

JsonDumps(d, keys) == "{" \o JsonItems(d, keys, 1) \o "}"

\* The record built from a row.
Transform(row) ==
  [code          |-> DeriveCode(row),
   description   |-> Or(row.description, ""),
   category      |-> Place(row),
   active        |-> (row.unit_require = "FALSE"),
   custom_fields |-> JsonDumps(Payload(row), PayloadKeys),
   updated_by    |-> "system_import"]

\* --------------------------------------------------------------- database

\* The codes of the records of a batch.
Codes(b) == {b[j].code : j \in 1..Len(b)}

\* Two records of the batch propose the same conflict key.
HasDuplicateCodes(b) ==
  \E i, j \in 1..Len(b) : i < j /\ b[i].code = b[j].code

\* The row a record is stored as: the tuple of VALUES, updated_at the time
\* of the transaction ('NOW()').
Stored(r, now) ==
  [description |-> r.description, category |-> r.category, active |-> r.active,
   custom_fields |-> r.custom_fields, updated_at |-> now,
   updated_by |-> r.updated_by]

\* An update that appends the incoming description to the stored one.
OnConflictAppend(existing, excluded) ==
  [excluded EXCEPT !.description = existing.description \o excluded.description]

\* ON CONFLICT (code) DO UPDATE SET ...: every column from EXCLUDED.
OnConflictUpdate(existing, excluded) == excluded

\* The table after the multi-row INSERT ... ON CONFLICT of a batch without
\* duplicate codes.
ExecuteValues(t, b, now) ==
  [c \in DOMAIN t \cup Codes(b) |->
     IF c \in Codes(b)
     THEN LET r == CHOOSE x \in {b[j] : j \in 1..Len(b)} : x.code = c
          IN IF c \in DOMAIN t THEN OnConflictUpdate(t[c], Stored(r, now))
             ELSE Stored(r, now)
     ELSE t[c]]

\* A table row that was there before the import.
OldRow ==
  [description |-> "old", category |-> "H", active |-> FALSE,
   custom_fields |-> "{}", updated_at |-> 0, updated_by |-> "admin"]

\* The contents of the codes table before the first run.
InitialTables ==
  {<<>>, [c \in {"A", "Z"} |-> OldRow]}

\* ------------------------------------------------------------------ state

VARIABLES
  pc,         \* where the script is
  run,        \* which run of the script this is
  csv,        \* the kinds of the rows of the file, as far as it was read
  pos,        \* the number of rows this run has read
  row,        \* row, <<>> before the first iteration
  record,     \* record, <<>> before the first iteration
  batch,      \* batch
  count,      \* count
  table,      \* the committed contents of the codes table
  clock,      \* the database's transaction clock
  reported,   \* the count of the completion line, -1 before it
  file,       \* the CSV file handle
  curCloses,  \* how often cur.close() was called
  connCloses, \* how often conn.close() was called
  sent,       \* history: the lines of the rows of each statement issued
  outcomes,   \* history: how each statement's flush ended
  batchLines, \* history: the lines of the records of batch
  firstRun    \* history: the table and the outcomes when the first run ended

vars ==
  <<pc, run, csv, pos, row, record, batch, count, table, clock, reported,
    file, curCloses, connCloses, sent, outcomes, batchLines, firstRun>>

\* The row of line i of the file.
RowAt(i) == RowOf(i, csv[i])

\* The number of rows of the file read so far that are not default rows.
CountSpecial(s) ==
  Cardinality({j \in SpecialLines \cap (1..Len(s)) : s[j] # "F"})

\* The number of flushes of a history that failed for a reason outside the
\* data.
TransientsIn(os) ==
  Cardinality({j \in 1..Len(os) : os[j] \in {"stmt_err", "commit_err"}})

\* The number of such flushes so far, in this run and the one before it.
Transients ==
  TransientsIn(outcomes) + (IF run = 1 THEN 0 ELSE TransientsIn(firstRun.outcomes))

\* After lines 10-30: connected, cursor acquired, file open, batch and count
\* initialised.
Init ==
  /\ pc = "loop"
  /\ run = 1
  /\ csv = <<>>
  /\ pos = 0
  /\ row = <<>>
  /\ record = <<>>
  /\ batch = <<>>
  /\ count = 0
  /\ table \in InitialTables
  /\ clock = 1
  /\ reported = -1
  /\ file = "open"
  /\ curCloses = 0
  /\ connCloses = 0
  /\ sent = <<>>
  /\ outcomes = <<>>
  /\ batchLines = <<>>
  /\ firstRun = <<>>

\* ---------------------------------------------------------------- actions

\* The test with > for >=.
IsFullOffByOne(b) == Len(b) > BatchSize

\* len(batch) >= 100
IsFull(b) == Len(b) >= BatchSize

\* The kinds the next line of the file may have.
NextKinds ==
  IF pos < Len(csv) THEN {csv[pos + 1]}
  ELSE IF run # 1 \/ Len(csv) >= MaxRows THEN {}
  ELSE {"F", "X"} \cup
       (IF (Len(csv) + 1) \in SpecialLines /\ CountSpecial(csv) < MaxSpecial
        THEN SpecialKinds ELSE {})

\* The file has no further row.
AtEndOfFile ==
  /\ pos = Len(csv)
  /\ run = 1 => (CountSpecial(csv) = 0 \/ Len(csv) \in FileLengths)

\* One iteration of "for row in reader" up to "batch.append(record)" and the
\* test of the batch's length.
ReadRow ==
  /\ pc = "loop"
  /\ \E k \in NextKinds \ {"X"} :
       LET line == pos + 1
       IN /\ csv' = IF pos < Len(csv) THEN csv ELSE Append(csv, k)
          /\ pos' = line
          /\ row' = RowOf(line, k)
          /\ record' = Transform(row')
          /\ batch' = Append(batch, record')
          /\ batchLines' = Append(batchLines, line)
          /\ pc' = IF IsFull(batch') THEN "flush" ELSE "loop"
  /\ UNCHANGED <<run, count, table, clock, reported, file, curCloses,
                 connCloses, sent, outcomes, firstRun>>

\* An iteration whose body raises before the record is appended: nothing
\* catches it, the with block closes the file and the script ends with the
\* traceback.  Lines 131-135 are not reached.
ReadRowRaises ==
  /\ pc = "loop"
  /\ "X" \in NextKinds
  /\ csv' = IF pos < Len(csv) THEN csv ELSE Append(csv, "X")
  /\ pos' = pos + 1
  /\ file' = "closed"
  /\ pc' = "aborted"
  /\ UNCHANGED <<run, row, record, batch, count, table, clock, reported,
                 curCloses, connCloses, sent, outcomes, batchLines, firstRun>>

\* How the flush of a batch may end: "ok" (statement and commit succeed),
\* "dup" (the statement fails on a duplicate conflict key), "stmt_err" (the
\* statement fails otherwise), "commit_err" (the statement succeeds and
\* conn.commit() raises).
Outcomes(b) ==
  IF HasDuplicateCodes(b) THEN {"dup"} \cup (IF Transients < MaxTransient THEN {"stmt_err"} ELSE {})
  ELSE {"ok"} \cup (IF Transients < MaxTransient THEN {"stmt_err", "commit_err"} ELSE {})

\* count after the try block: "count += len(batch)" stands before
\* conn.commit(), after execute_values.
CountAfter(c, b, o) ==
  IF o \in {"ok", "commit_err"} THEN c + Len(b) ELSE c

\* A table that keeps the statement's rows when conn.commit() raises.
TableAfterNoRollback(t, b, now, o) ==
  IF o \in {"ok", "commit_err"} THEN ExecuteValues(t, b, now) ELSE t

\* The committed table after the try block: conn.commit() makes the
\* statement's rows visible, conn.rollback() leaves the table as it was.
TableAfter(t, b, now, o) ==
  IF o = "ok" THEN ExecuteValues(t, b, now) ELSE t

\* A loop that does not reset the batch.
BatchKept(b) == b

\* batch after the try block of the loop: "batch = []".
BatchAfterFlush(b) == <<>>

\* The try/except of a flush, lines 69-97 and 103-129.
Flush(o) ==
  /\ count' = CountAfter(count, batch, o)
  /\ table' = TableAfter(table, batch, clock, o)
  /\ clock' = clock + 1
  /\ sent' = Append(sent, batchLines)
  /\ outcomes' = Append(outcomes, o)

\* The flush of a full batch inside the loop, and "batch = []".
FlushFull ==
  /\ pc = "flush"
  /\ \E o \in Outcomes(batch) : Flush(o)
  /\ batch' = BatchAfterFlush(batch)
  /\ batchLines' = <<>>
  /\ pc' = "loop"
  /\ UNCHANGED <<run, csv, pos, row, record, reported, file, curCloses,
                 connCloses, firstRun>>

\* The reader is exhausted: the loop and the with block end.
EndOfFile ==
  /\ pc = "loop"
  /\ AtEndOfFile
  /\ file' = "closed"
  /\ pc' = "final"
  /\ UNCHANGED <<run, csv, pos, row, record, batch, count, table, clock,
                 reported, curCloses, connCloses, sent, outcomes, batchLines,
                 firstRun>>

\* "if batch:"
HasRemaining(b) == b # <<>>

\* "if batch:" and the flush of the remaining records; batch is not reset.
FlushFinal ==
  /\ pc = "final"
  /\ IF HasRemaining(batch)
     THEN \E o \in Outcomes(batch) : Flush(o)
     ELSE UNCHANGED <<count, table, clock, sent, outcomes>>
  /\ pc' = "report"
  /\ UNCHANGED <<run, csv, pos, row, record, batch, reported, file, curCloses,
                 connCloses, batchLines, firstRun>>

\* The completion line, cur.close() and conn.close().
Complete ==
  /\ pc = "report"
  /\ reported' = count
  /\ curCloses' = curCloses + 1
  /\ connCloses' = connCloses + 1
  /\ pc' = "done"
  /\ UNCHANGED <<run, csv, pos, row, record, batch, count, table, clock, file,
                 sent, outcomes, batchLines, firstRun>>

Next ==
  \/ ReadRow
  \/ ReadRowRaises
  \/ FlushFull
  \/ EndOfFile
  \/ FlushFinal
  \/ Complete

Spec == Init /\ [][Next]_vars

\* The script is started again on the same file, once the first run has
\* ended: a new process, with a new connection, cursor, batch and count.
Rerun ==
  /\ run = 1
  /\ pc \in {"done", "aborted"}
  /\ Len(csv) \in RerunLengths
  /\ run' = 2
  /\ firstRun' = [table |-> table, outcomes |-> outcomes]
  /\ pc' = "loop"
  /\ pos' = 0
  /\ row' = <<>>
  /\ record' = <<>>
  /\ batch' = <<>>
  /\ count' = 0
  /\ reported' = -1
  /\ file' = "open"
  /\ curCloses' = 0
  /\ connCloses' = 0
  /\ sent' = <<>>
  /\ outcomes' = <<>>
  /\ batchLines' = <<>>
  /\ UNCHANGED <<csv, table, clock>>

NextTwice ==
  \/ Next
  \/ Rerun

SpecTwice == Init /\ [][NextTwice]_vars

\* ------------------------------------------- the transformation on its own

\* The rows the transformation is applied to on its own.
RowInputs ==
  [billing_code : {"A", "A-O", "12"},
   place : {"", "all", "O", "ALL"},
   description : {"", "desc"},
   unit_require : {"FALSE", "TRUE", "false"},
   tariff_value : {"", "12.50"},
   extra_unit_value : {"0"},
   source_file : {"ramq.csv"},
   top_level : {"top"},
   level1_group : {"g1"},
   level2_group : {"g2"},
   leaf : {"leaf"},
   indicators : {"ind"},
   anchor_id : {"", "anc"}]

\* The reader has delivered one row.
InitRow ==
  /\ pc = "row"
  /\ run = 1
  /\ csv = <<>>
  /\ pos = 1
  /\ row \in RowInputs
  /\ record = <<>>
  /\ batch = <<>>
  /\ count = 0
  /\ table = <<>>
  /\ clock = 1
  /\ reported = -1
  /\ file = "open"
  /\ curCloses = 0
  /\ connCloses = 0
  /\ sent = <<>>
  /\ outcomes = <<>>
  /\ batchLines = <<>>
  /\ firstRun = <<>>

\* Lines 34-63 on that row.
BuildRecord ==
  /\ pc = "row"
  /\ record' = Transform(row)
  /\ pc' = "built"
  /\ UNCHANGED <<run, csv, pos, row, batch, count, table, clock, reported, file,
                 curCloses, connCloses, sent, outcomes, batchLines, firstRun>>

NextRow ==
  \/ BuildRecord

SpecRow == InitRow /\ [][NextRow]_vars

\* ----------------------------------------------------------------- claims

\* The lines 1..n in file order.
Lines(n) == [j \in 1..n |-> j]

\* The statements of a history, one after the other.
RECURSIVE Flatten(_, _)
Flatten(ss, j) ==
  IF j = 0 THEN <<>> ELSE Flatten(ss, j - 1) \o ss[j]

\* The number of records of the batches that were committed.
RECURSIVE CommittedTotal(_, _, _)
CommittedTotal(ss, os, j) ==
  IF j = 0 THEN 0
  ELSE CommittedTotal(ss, os, j - 1) + (IF os[j] = "ok" THEN Len(ss[j]) ELSE 0)

\* The run has ended, at the completion line or on an uncaught exception.
Ended == pc \in {"done", "aborted"}

\* C1: when the run ends, the reported total is the sum of the sizes of
\* exactly the batches whose transaction was committed; a batch that ended
\* in rollback, the one whose commit failed included, contributes nothing.
C1_CountIsCommitted ==
  pc = "done" => reported = CommittedTotal(sent, outcomes, Len(sent))

\* A step that is the try/except of a flush, and one that ended in rollback.
FlushStep == Len(outcomes') = Len(outcomes) + 1
FlushFailed == FlushStep /\ outcomes'[Len(outcomes')] # "ok"

\* Every line read so far stands in exactly one statement or in the pending
\* batch, in file order.
ReadLines == IF pc = "aborted" THEN pos - 1 ELSE pos
Pending == IF pc \in {"report", "done"} THEN <<>> ELSE batchLines
EachLineOnce ==
  /\ Flatten(sent, Len(sent)) \o Pending = Lines(ReadLines)
  /\ Len(batch) = Len(batchLines)

\* The pending batch changes only by the record of the line just read being
\* appended to it, or by being emptied.
BatchFollowsFile ==
  /\ batch' # batch =>
       \/ batch' = <<>> /\ batchLines' = <<>>
       \/ /\ pos' = pos + 1
          /\ batch' = Append(batch, Transform(RowOf(pos', csv'[pos'])))
          /\ batchLines' = Append(batchLines, pos')
  /\ batchLines' # batchLines => batch' # batch

SameValues(stored, r) ==
  /\ stored.description = r.description
  /\ stored.category = r.category
  /\ stored.active = r.active
  /\ stored.custom_fields = r.custom_fields
  /\ stored.updated_by = r.updated_by

\* The last line of the file with the derived code of line i.
LastWithCode(i) ==
  CHOOSE j \in i..Len(csv) :
    /\ DeriveCode(RowAt(j)) = DeriveCode(RowAt(i))
    /\ \A k \in (j + 1)..Len(csv) : DeriveCode(RowAt(k)) # DeriveCode(RowAt(i))

\* C3: after an import run in which no flush failed for a reason outside
\* the data, the codes table holds a row for the derived code of every line
\* of the file, with the values of the last line that derives that code, in
\* the same batch or in another one.
C3_LastWriteWins ==
  (pc = "done" /\ TransientsIn(outcomes) = 0) =>
     \A i \in 1..Len(csv) :
        /\ DeriveCode(RowAt(i)) \in DOMAIN table
        /\ SameValues(table[DeriveCode(RowAt(i))], Transform(RowAt(LastWithCode(i))))

\* A step in which the body of the loop raises while it builds a record.
RowRaises == pos' = pos + 1 /\ csv'[pos'] = "X"

\* C4: when building a row's payload fails, the pending batch is rolled
\* back with nothing of it inserted, and the loop goes on with the rows
\* that follow.
C4_PayloadFailureContained ==
  [][RowRaises => (table' = table /\ batch' = <<>> /\ pc' = "loop")]_vars

\* C5: on every path on which the run ends, the cursor and the connection
\* have been closed exactly once.
C5_ReleasedOnce ==
  Ended => (curCloses = 1 /\ connCloses = 1)

\* The number of statements a file of n rows needs.
CeilDiv(n, d) == (n + d - 1) \div d

\* C6: a file of N rows imported without any failed flush: ceil(N/100)
\* statements, each but the last of 100 records, the last of N mod 100
\* records (100 when N is a positive multiple of 100), none empty, none at
\* all for N = 0, and a final count of N.
C6_Batching ==
  (pc = "done" /\ \A j \in 1..Len(outcomes) : outcomes[j] = "ok") =>
     LET N == Len(csv)
         K == Len(sent)
     IN /\ K = CeilDiv(N, 100)
        /\ \A j \in 1..(K - 1) : Len(sent[j]) = 100
        /\ K > 0 => Len(sent[K]) = (IF N % 100 = 0 THEN 100 ELSE N % 100)
        /\ \A j \in 1..K : Len(sent[j]) > 0
        /\ (N = 0 => K = 0)
        /\ reported = N

\* The scenario of 150 rows: two statements, of 100 and of 50 records, and a
\* final count of 150.
C6_Witness ==
  /\ pc = "done"
  /\ Len(csv) = 150
  /\ outcomes = <<"ok", "ok">>
  /\ Len(sent[1]) = 100
  /\ Len(sent[2]) = 50
  /\ reported = 150

\* The two runs met no failure from outside the data.
NoTransient ==
  TransientsIn(firstRun.outcomes) = 0 /\ TransientsIn(outcomes) = 0

\* C7: with no failure from outside the data in either run, the second run
\* of the import on the same file leaves the codes table with the codes the
\* first run left, and with the same description, category, active,
\* custom_fields and updated_by for each.
C7_Idempotent ==
  (run = 2 /\ Ended /\ NoTransient) =>
     /\ DOMAIN table = DOMAIN firstRun.table
     /\ \A c \in DOMAIN table : SameValues(table[c], firstRun.table[c])

\* A second run that completed on a file of two batches with the same code
\* in both, over a table that held that code before, and that upserted it
\* again (its updated_at moved).
C7_Witness ==
  /\ run = 2
  /\ pc = "done"
  /\ NoTransient
  /\ Len(csv) = BatchSize + 1
  /\ csv[1] = "S1"
  /\ csv[BatchSize + 1] = "S2"
  /\ outcomes = <<"ok", "ok">>
  /\ table["A"].description = "second"
  /\ table["A"].updated_at # firstRun.table["A"].updated_at
  /\ "Z" \in DOMAIN table

\* C8: the derived code is billing_code when place is empty or "all", and
\* billing_code, "-" and place otherwise; the category is place, or "all"
\* when place is empty.
C8_CodeAndCategory ==
  pc = "built" =>
     /\ row.place \in {"", "all"} => record.code = row.billing_code
     /\ row.place \notin {"", "all"} =>
          record.code = row.billing_code \o "-" \o row.place
     /\ record.category = (IF row.place = "" THEN "all" ELSE row.place)

\* The scenario billing_code = A, place = O.
C8_Witness ==
  /\ pc = "built"
  /\ row.billing_code = "A"
  /\ row.place = "O"
  /\ record.code = "A-O"
  /\ record.category = "O"

\* The text of json.dumps for a payload whose keys hold the fields of the
\* row r of the same name, but for place, which holds p.
PayloadText(r, p) ==
  "{\"billing_code\": \"" \o r.billing_code
  \o "\", \"place\": \"" \o p
  \o "\", \"tariff_value\": \"" \o r.tariff_value
  \o "\", \"extra_unit_value\": \"" \o r.extra_unit_value
  \o "\", \"source_file\": \"" \o r.source_file
  \o "\", \"top_level\": \"" \o r.top_level
  \o "\", \"level1_group\": \"" \o r.level1_group
  \o "\", \"level2_group\": \"" \o r.level2_group
  \o "\", \"leaf\": \"" \o r.leaf
  \o "\", \"indicators\": \"" \o r.indicators
  \o "\", \"anchor_id\": \"" \o r.anchor_id
  \o "\"}"

\* C9 as stated: every key of the payload, place included, holds the value
\* of the field of the row of the same name.
C9_PayloadVerbatim ==
  pc = "built" => record.custom_fields = PayloadText(row, row.place)

\* C9 as amended: every key but place holds the value of the field of the
\* same name; place holds the field's value, or "all" when the field is
\* empty.
C9_PayloadVerbatimButPlace ==
  pc = "built" =>
     record.custom_fields =
       PayloadText(row, IF row.place = "" THEN "all" ELSE row.place)

\* A record built from a row whose place is empty.
C9_Witness ==
  /\ pc = "built"
  /\ row.place = ""
  /\ row.tariff_value = "12.50"
  /\ record.custom_fields = PayloadText(row, "all")

\* The steps the run has left at most: two per row the file may still hold,
\* and the three after the loop.
StepsLeft ==
  CASE pc = "loop"   -> 2 * (MaxRows - pos) + 3
    [] pc = "flush"  -> 2 * (MaxRows - pos) + 4
    [] pc = "final"  -> 2
    [] pc = "report" -> 1
    [] OTHER         -> 0

\* What C10 says besides the state of the batch after a flush: every line
\* read is in exactly one statement or pending, in file order, with the
\* record built from it; the pending batch never exceeds 100 records; a
\* completed run has sent every line; and the run ends: it can always take
\* a step until it has ended, every step brings the end nearer, and once
\* the rows are exhausted the end is two steps away.
C10_Common ==
  /\ [](EachLineOnce)
  /\ [][BatchFollowsFile]_vars
  /\ [](Len(batch) <= 100)
  /\ [](pc = "done" => Flatten(sent, Len(sent)) = Lines(Len(csv)))
  /\ [](Ended \/ ENABLED Next)
  /\ [](StepsLeft >= 0)
  /\ [][StepsLeft' < StepsLeft]_vars

====
